---- MODULE Spec2Model ----
(***************************************************************************)
(* Model of the icetop_muons feature tables:                               *)
(*   src/NN_data.py             process_showers, avg_runs                  *)
(*   src/neural_network_data.py process_shower, NNdata300, NNdata400       *)
(*                                                                         *)
(* Python floats are binary floating point numbers (IEEE-754 binary64,     *)
(* round to nearest, ties to even).  The model keeps the format and its    *)
(* rounding rule and narrows the significand to Precision bits, so that    *)
(* the arithmetic stays inside TLC's integers; exponents are unbounded     *)
(* (no overflow, no subnormals).                                           *)
(***************************************************************************)
EXTENDS Integers, Sequences, FiniteSets

\* ------------------------------------------------------------------------
\* Bounds of the model
\* ------------------------------------------------------------------------
Precision == 7     \* bits of the significand of a float
MaxTanks  == 2     \* detectors of a shower
MaxCalls  == 2     \* calls of process_shower on the shower
MaxRows   == 3     \* rows handed to avg_runs
MaxRun    == 2     \* run ids 1..MaxRun

\* ------------------------------------------------------------------------
\* Floats: <<m, e>> is m * 2^e, with m = 0 (and e = 0) or
\* 2^(Precision-1) <= |m| < 2^Precision.
\* ------------------------------------------------------------------------
Pow2(k) == 2 ^ k

RECURSIVE BitLen(_)
BitLen(n) == IF n = 0 THEN 0 ELSE 1 + BitLen(n \div 2)

Zero == <<0, 0>>

\* n * 2^e for n > 0, rounded to Precision bits, ties to even
RoundPos(n, e) ==
    LET len == BitLen(n) IN
    IF len <= Precision
    THEN <<n * Pow2(Precision - len), e - (Precision - len)>>
    ELSE LET k    == len - Precision
             q    == n \div Pow2(k)
             r    == n % Pow2(k)
             half == Pow2(k - 1)
             up   == r > half \/ (r = half /\ q % 2 = 1)
             q1   == IF up THEN q + 1 ELSE q
         IN  IF q1 = Pow2(Precision)
             THEN <<Pow2(Precision - 1), e + k + 1>>
             ELSE <<q1, e + k>>

Round(n, e) ==
    IF n = 0 THEN Zero
    ELSE IF n > 0 THEN RoundPos(n, e)
    ELSE LET p == RoundPos(-n, e) IN <<-p[1], p[2]>>

Min(a, b) == IF a <= b THEN a ELSE b

\* the two significands over the common exponent Min(a[2], b[2])
AlignL(a, b) == a[1] * Pow2(a[2] - Min(a[2], b[2]))
AlignR(a, b) == b[1] * Pow2(b[2] - Min(a[2], b[2]))

FAdd(a, b) ==
    IF a = Zero THEN b
    ELSE IF b = Zero THEN a
    ELSE Round(AlignL(a, b) + AlignR(a, b), Min(a[2], b[2]))

FMul(a, b) == Round(a[1] * b[1], a[2] + b[2])

IAbs(n) == IF n < 0 THEN -n ELSE n

\* a / b for b # 0: the quotient to Precision + 2 bits and a sticky bit
FDiv(a, b) ==
    LET num  == IAbs(a[1]) * Pow2(Precision + 2)
        den  == IAbs(b[1])
        q    == num \div den
        r    == num % den
        n    == 2 * q + (IF r = 0 THEN 0 ELSE 1)
        sign == IF (a[1] < 0) = (b[1] < 0) THEN 1 ELSE -1
    IN  Round(sign * n, a[2] - b[2] - (Precision + 2) - 1)

FAbs(a) == <<IAbs(a[1]), a[2]>>

FLe(a, b) ==
    IF a = Zero THEN b[1] >= 0
    ELSE IF b = Zero THEN a[1] <= 0
    ELSE AlignL(a, b) <= AlignR(a, b)

FGe(a, b) == FLe(b, a)
FGt(a, b) == ~FLe(a, b)

FromInt(n) == Round(n, 0)

\* the float nearest k/10: a decimal literal, or a datum stored as a float
FromTenths(k) == FDiv(FromInt(k), FromInt(10))

\* ------------------------------------------------------------------------
\* Program constants and the values a shower record is drawn from
\* ------------------------------------------------------------------------
cut_dist == 400

None  == "None"
Unset == "unset"

Labels == {"PPlus", "Fe56Nucleus"}

LatDistValues   == {FromInt(300), FromInt(400), FromInt(500)}
MuonPEValues    == {FromInt(5)}
nMuonsValues    == {FromInt(2)}
TimeDelayValues == {FromInt(-3)}

\* <<TotalPE, TotalVEM>> of a detector: no signal, or a signal of 10 PE below,
\* on either edge of, and above the band 0.6 .. 2.0 VEM
SignalValues == {<<Zero, Zero>>,
                 <<FromInt(10), FromTenths(5)>>, <<FromInt(10), FromTenths(6)>>,
                 <<FromInt(10), FromTenths(20)>>, <<FromInt(10), FromTenths(21)>>}

SignalFields == {"Tank", "LatDist", "TotalPE", "TotalVEM", "MuonPE", "nMuons",
                 "TimeDelay"}

Detectors == {[LatDist |-> d, TotalPE |-> s[1], TotalVEM |-> s[2], MuonPE |-> m,
               nMuons |-> n, TimeDelay |-> t] :
                 d \in LatDistValues, s \in SignalValues, m \in MuonPEValues,
                 n \in nMuonsValues, t \in TimeDelayValues}

DetectorSeqs == UNION {[1..n -> Detectors] : n \in 0..MaxTanks}

\* the parallel sequences shower.Signals.* of the detectors ds
SignalsOf(ds) ==
    [Tank      |-> [i \in 1..Len(ds) |-> i],
     LatDist   |-> [i \in 1..Len(ds) |-> ds[i].LatDist],
     TotalPE   |-> [i \in 1..Len(ds) |-> ds[i].TotalPE],
     TotalVEM  |-> [i \in 1..Len(ds) |-> ds[i].TotalVEM],
     MuonPE    |-> [i \in 1..Len(ds) |-> ds[i].MuonPE],
     nMuons    |-> [i \in 1..Len(ds) |-> ds[i].nMuons],
     TimeDelay |-> [i \in 1..Len(ds) |-> ds[i].TimeDelay]]

\* the entry a sequence that is one too long ends with
ExtraEntry(f, n) ==
    CASE f = "Tank"      -> n + 1
      [] f = "LatDist"   -> FromInt(500)
      [] f = "TotalPE"   -> FromInt(10)
      [] f = "TotalVEM"  -> FromInt(1)
      [] f = "MuonPE"    -> FromInt(5)
      [] f = "nMuons"    -> FromInt(2)
      [] f = "TimeDelay" -> FromInt(-3)

\* a record whose sequences are parallel ("same"), or with sequence f one entry
\* shorter or longer than the others
Shapes == {<<"same", "Tank">>} \cup (({"short", "long"}) \X SignalFields)

Reshape(Sig, shape) ==
    LET f == shape[2] IN
    CASE shape[1] = "same"  -> Sig
      [] shape[1] = "short" -> [Sig EXCEPT ![f] = SubSeq(@, 1, Len(@) - 1)]
      [] shape[1] = "long"  -> [Sig EXCEPT ![f] = Append(@, ExtraEntry(f, Len(@)))]

MkShower(Sig) ==
    [Run            |-> 1,
     Reconstruction |-> [Energy |-> FromInt(3), E_Proton |-> FromInt(2),
                         E_Iron |-> FromInt(4), zen |-> FromTenths(5)],
     Primary        |-> [Type |-> "PPlus"],
     Signals        |-> Sig]

Showers == {MkShower(Reshape(SignalsOf(ds), sh)) : ds \in DetectorSeqs, sh \in Shapes}

\* ------------------------------------------------------------------------
\* State
\* ------------------------------------------------------------------------
VARIABLES
    shower,         \* the shower record the data files hold
    pcNN,           \* NN_data.py: the call of process_showers to make next
    callNN,         \* NN_data.py: the outcome of the last call of process_showers
    NNdata_proton,  \* NN_data.py:78
    NNdata_iron,    \* NN_data.py:84
    NNdata300,      \* neural_network_data.py:5, module-level list
    NNdata400,      \* neural_network_data.py:6, module-level list
    call400,        \* neural_network_data.py: the outcome of the last call of process_shower
    calls400,       \* neural_network_data.py: calls of process_shower made
    List,           \* avg_runs: its argument List
    Type,           \* avg_runs: its argument Type
    pc,             \* avg_runs: position ("idle" while it is not called)
    run_list,       \* avg_runs: the run ids the for loop has still to visit
    tot,            \* avg_runs: locals nShowers, Energy_tot, ... of the last pass
    avgList,        \* avg_runs: local avgList
    excAvg,         \* avg_runs: the exception raised
    result          \* avg_runs: the value returned, or Unset

extractVars == <<shower, pcNN, callNN, NNdata_proton, NNdata_iron, NNdata300,
                 NNdata400, call400, calls400>>
avgVars     == <<List, Type, pc, run_list, tot, avgList, excAvg, result>>
vars        == <<extractVars, avgVars>>

\* ------------------------------------------------------------------------
\* The feature extractors
\* ------------------------------------------------------------------------
\* mutant of Raise: the exception is swallowed and the loop goes on
RaiseSwallowed(acc, e) == acc

Raise(acc, e) == [acc EXCEPT !.exc = e]

\* seq[i] is an entry (Python raises IndexError otherwise)
InRange(seq, i) == i <= Len(seq)

\* mutant of DistCut: no cut on the lateral distance
DistCutNone(d) == TRUE

\* NN_data.py:24   shower.Signals.LatDist[i] >= cut_dist
CutDist == FromInt(cut_dist)
DistCut(d) == FGe(d, CutDist)

\* neural_network_data.py:21   shower.Signals.LatDist[i] > 400
CutDist400 == FromInt(400)
DistCut400(d) == FGt(d, CutDist400)

\* mutant of PEGuard: the test of TotalPE is missing
PEGuardNone(pe) == TRUE

\* shower.Signals.TotalPE[i] != 0
PEGuard(pe) == pe # Zero

\* totalVEM >= 0.6 and totalVEM <= 2.0
BandLow  == FromTenths(6)
BandHigh == FromTenths(20)
\* mutant of InBand: the upper edge of the band is missing
InBandNoUpper(totalVEM) == FGe(totalVEM, BandLow)

InBand(totalVEM) == FGe(totalVEM, BandLow) /\ FLe(totalVEM, BandHigh)

\* NN_data.py:24-33, the body of the loop over the tanks
process_showers_tank(Sig, i, acc) ==
    IF ~InRange(Sig.LatDist, i) THEN Raise(acc, "IndexError")
    ELSE IF ~DistCut(Sig.LatDist[i]) THEN acc
    ELSE IF ~InRange(Sig.TotalPE, i) THEN Raise(acc, "IndexError")
    ELSE IF ~PEGuard(Sig.TotalPE[i]) THEN acc
    ELSE IF ~InRange(Sig.TotalVEM, i) THEN Raise(acc, "IndexError")
    ELSE
      LET totalVEM == Sig.TotalVEM[i]
          totalPE  == Sig.TotalPE[i]
          acc1     == [acc EXCEPT !.divs = Append(@, totalPE)]
      IN
      IF totalPE = Zero THEN Raise(acc1, "ZeroDivisionError")
      ELSE IF ~InRange(Sig.MuonPE, i) THEN Raise(acc1, "IndexError")
      ELSE IF ~InRange(Sig.nMuons, i) THEN Raise(acc1, "IndexError")
      ELSE
        LET scale    == FDiv(totalVEM, totalPE)
            scaledPE == FMul(scale, Sig.MuonPE[i])
            acc2     == [acc1 EXCEPT !.nMuons  = FAdd(@, Sig.nMuons[i]),
                                     !.MuonVEM = FAdd(@, scaledPE)]
        IN
        IF ~InBand(totalVEM) THEN acc2
        ELSE IF ~InRange(Sig.TimeDelay, i) THEN Raise(acc2, "IndexError")
        ELSE [acc2 EXCEPT !.TimeDelay = FAdd(@, FAbs(Sig.TimeDelay[i])),
                          !.Q         = FAdd(@, totalVEM)]

\* NN_data.py:23   for i in range(len(shower.Signals.Tank))
RECURSIVE process_showers_loop(_, _, _)
process_showers_loop(Sig, i, acc) ==
    IF i > Len(Sig.Tank) \/ acc.exc # "none" THEN acc
    ELSE process_showers_loop(Sig, i + 1, process_showers_tank(Sig, i, acc))

\* NN_data.py:10-35, one shower: the row appended, the exception, the divisors
process_showers_shower(sh) ==
    LET acc == process_showers_loop(sh.Signals, 1,
                   [TimeDelay |-> Zero, Q |-> Zero, MuonVEM |-> Zero,
                    nMuons |-> Zero, exc |-> "none", divs |-> <<>>])
    IN  [row  |-> <<sh.Run, sh.Reconstruction.Energy, sh.Reconstruction.zen,
                    acc.TimeDelay, acc.Q, acc.MuonVEM, acc.nMuons, sh.Primary.Type>>,
         exc  |-> acc.exc,
         divs |-> acc.divs]

\* NN_data.py:35   List.append([...]); an exception leaves the call at once
process_showers_append(out, r) ==
    [List |-> IF r.exc = "none" THEN Append(out.List, r.row) ELSE out.List,
     exc  |-> r.exc,
     divs |-> out.divs \o r.divs]

\* NN_data.py:7-36
RECURSIVE process_showers_from(_, _, _)
process_showers_from(showers, k, out) ==
    IF k > Len(showers) \/ out.exc # "none" THEN out
    ELSE process_showers_from(showers, k + 1,
             process_showers_append(out, process_showers_shower(showers[k])))

process_showers(showers) ==
    process_showers_from(showers, 1, [List |-> <<>>, exc |-> "none", divs |-> <<>>])

\* neural_network_data.py:21-29, the body of the loop over the tanks
process_shower_tank(Sig, i, acc) ==
    IF ~InRange(Sig.LatDist, i) THEN Raise(acc, "IndexError")
    ELSE IF ~DistCut400(Sig.LatDist[i]) THEN acc
    ELSE IF ~InRange(Sig.TotalPE, i) THEN Raise(acc, "IndexError")
    ELSE IF ~PEGuard(Sig.TotalPE[i]) THEN acc
    ELSE IF ~InRange(Sig.TotalVEM, i) THEN Raise(acc, "IndexError")
    ELSE
      LET totalVEM == Sig.TotalVEM[i]
          totalPE  == Sig.TotalPE[i]
          acc1     == [acc EXCEPT !.divs = Append(@, totalPE)]
      IN
      IF totalPE = Zero THEN Raise(acc1, "ZeroDivisionError")
      ELSE IF ~InRange(Sig.MuonPE, i) THEN Raise(acc1, "IndexError")
      ELSE IF ~InRange(Sig.nMuons, i) THEN Raise(acc1, "IndexError")
      ELSE
        LET scale    == FDiv(totalVEM, totalPE)
            scaledPE == FMul(scale, Sig.MuonPE[i])
            acc2     == [acc1 EXCEPT !.nMuon   = FAdd(@, Sig.nMuons[i]),
                                     !.MuonVEM = FAdd(@, scaledPE)]
        IN
        IF ~InBand(totalVEM) THEN acc2
        ELSE [acc2 EXCEPT !.Q400 = FAdd(@, totalVEM)]

\* neural_network_data.py:20   for i in range(len(shower.Signals.Tank))
RECURSIVE process_shower_loop(_, _, _)
process_shower_loop(Sig, i, acc) ==
    IF i > Len(Sig.Tank) \/ acc.exc # "none" THEN acc
    ELSE process_shower_loop(Sig, i + 1, process_shower_tank(Sig, i, acc))

\* neural_network_data.py:8-31: the row appended to NNdata400, the exception,
\* the divisors; the function has no return statement
process_shower(sh) ==
    LET acc == process_shower_loop(sh.Signals, 1,
                   [Q400 |-> Zero, MuonVEM |-> Zero, nMuon |-> Zero,
                    exc |-> "none", divs |-> <<>>])
    IN  [row  |-> <<sh.Reconstruction.E_Proton, sh.Reconstruction.E_Iron,
                    sh.Reconstruction.zen, acc.Q400, acc.MuonVEM, acc.nMuon,
                    sh.Primary.Type>>,
         exc  |-> acc.exc,
         divs |-> acc.divs,
         ret  |-> None]

\* mutant of AppendRow: the list is assigned, not appended to
AppendRowReset(list, row) == <<row>>

\* neural_network_data.py:31   NNdata400.append([...])
AppendRow(list, row) == Append(list, row)

\* ------------------------------------------------------------------------
\* The extraction steps of the two scripts; each data file holds the record
\* shower
\* ------------------------------------------------------------------------
NoCall == [exc |-> "none", divs |-> <<>>]

\* NN_data.py:78   NNdata_proton = process_showers(protondata)
\* NN_data.py:84   NNdata_iron = process_showers(irondata)
ProcessShowers ==
    /\ pcNN \in {"proton", "iron"}
    /\ callNN' = process_showers(<<shower>>)
    /\ NNdata_proton' = IF pcNN = "proton" /\ callNN'.exc = "none"
                        THEN callNN'.List ELSE NNdata_proton
    /\ NNdata_iron' = IF pcNN = "iron" /\ callNN'.exc = "none"
                      THEN callNN'.List ELSE NNdata_iron
    /\ pcNN' = IF callNN'.exc # "none" THEN "raised"
               ELSE IF pcNN = "proton" THEN "iron" ELSE "done"
    /\ UNCHANGED <<shower, NNdata300, NNdata400, call400, calls400>>
    /\ UNCHANGED avgVars

\* neural_network_data.py:35-36, 40-41   for shower in ...: process_shower(shower)
ProcessShower ==
    /\ pcNN \in {"done", "raised"}    \* the two scripts are run one after the other
    /\ calls400 < MaxCalls
    /\ call400.exc = "none"
    /\ call400' = process_shower(shower)
    /\ NNdata400' = IF call400'.exc = "none" THEN AppendRow(NNdata400, call400'.row)
                    ELSE NNdata400
    /\ calls400' = calls400 + 1
    /\ UNCHANGED <<shower, pcNN, callNN, NNdata_proton, NNdata_iron, NNdata300>>
    /\ UNCHANGED avgVars

\* ------------------------------------------------------------------------
\* avg_runs
\* ------------------------------------------------------------------------
One == FromInt(1)

\* NN_data.py:48-54
tot0 == [nShowers |-> Zero, Energy_tot |-> Zero, Zen_tot |-> Zero,
         TimeDelay_tot |-> Zero, Q_tot |-> Zero, MuonVEM_tot |-> Zero,
         nMuons_tot |-> Zero]

\* mutant of SameRun: the rows are not told apart by run
SameRunAny(row, Run) == TRUE

\* NN_data.py:56   if shower[0] == Run
SameRun(row, Run) == row[1] = Run

\* NN_data.py:56-63
tot_add(t, row, Run) ==
    IF SameRun(row, Run)
    THEN [nShowers      |-> FAdd(t.nShowers, One),
          Energy_tot    |-> FAdd(t.Energy_tot, row[2]),
          Zen_tot       |-> FAdd(t.Zen_tot, row[3]),
          TimeDelay_tot |-> FAdd(t.TimeDelay_tot, row[4]),
          Q_tot         |-> FAdd(t.Q_tot, row[5]),
          MuonVEM_tot   |-> FAdd(t.MuonVEM_tot, row[6]),
          nMuons_tot    |-> FAdd(t.nMuons_tot, row[7])]
    ELSE t

\* NN_data.py:55   for shower in List
RECURSIVE totals(_, _, _, _)
totals(rows, Run, k, t) ==
    IF k > Len(rows) THEN t
    ELSE totals(rows, Run, k + 1, tot_add(t, rows[k], Run))

\* mutant of avg_row: Zen_avg is computed from Energy_tot
avg_row_swapped(t, Run, label) ==
    <<Run, FDiv(t.Energy_tot, t.nShowers), FDiv(t.Energy_tot, t.nShowers),
      FDiv(t.TimeDelay_tot, t.nShowers), FDiv(t.Q_tot, t.nShowers),
      FDiv(t.MuonVEM_tot, t.nShowers), FDiv(t.nMuons_tot, t.nShowers), label>>

\* NN_data.py:65-71
avg_row(t, Run, label) ==
    <<Run, FDiv(t.Energy_tot, t.nShowers), FDiv(t.Zen_tot, t.nShowers),
      FDiv(t.TimeDelay_tot, t.nShowers), FDiv(t.Q_tot, t.nShowers),
      FDiv(t.MuonVEM_tot, t.nShowers), FDiv(t.nMuons_tot, t.nShowers), label>>

\* mutant of RunIds: the first row is skipped
RunIdsSkipFirst(rows) == {rows[k][1] : k \in 2..Len(rows)}

\* mutant of RunIds: every run id is visited, present in the rows or not
RunIdsRange(rows) == 1..MaxRun

\* NN_data.py:43-45
RunIds(rows) == {rows[k][1] : k \in 1..Len(rows)}

\* NN_data.py:41-45
avg_runs_start ==
    /\ pc = "call"
    /\ avgList' = <<>>
    /\ run_list' = RunIds(List)
    /\ pc' = "for"
    /\ UNCHANGED <<List, Type, tot, excAvg, result>>
    /\ UNCHANGED extractVars

\* NN_data.py:47-71, one pass of   for Run in run_list   (a set: in any order)
avg_runs_for ==
    /\ pc = "for"
    /\ \E Run \in run_list :
         /\ tot' = totals(List, Run, 1, tot0)
         /\ excAvg' = IF tot'.nShowers = Zero THEN "ZeroDivisionError" ELSE "none"
         /\ avgList' = IF tot'.nShowers = Zero THEN avgList
                       ELSE Append(avgList, avg_row(tot', Run, Type))
         /\ run_list' = run_list \ {Run}
         /\ pc' = IF tot'.nShowers = Zero THEN "raised" ELSE "for"
    /\ UNCHANGED <<List, Type, result>>
    /\ UNCHANGED extractVars

\* NN_data.py:73   return avgList
avg_runs_return ==
    /\ pc = "for"
    /\ run_list = {}
    /\ result' = avgList
    /\ pc' = "done"
    /\ UNCHANGED <<List, Type, run_list, tot, avgList, excAvg>>
    /\ UNCHANGED extractVars

\* ------------------------------------------------------------------------
\* Specifications
\* ------------------------------------------------------------------------
AvgIdle ==
    /\ List = <<>>
    /\ Type = "PPlus"
    /\ pc = "idle"
    /\ run_list = {}
    /\ tot = tot0
    /\ avgList = <<>>
    /\ excAvg = "none"
    /\ result = Unset

ExtractStart ==
    /\ pcNN = "proton"
    /\ callNN = NoCall
    /\ NNdata_proton = Unset
    /\ NNdata_iron = Unset
    /\ NNdata300 = <<>>
    /\ NNdata400 = <<>>
    /\ call400 = NoCall
    /\ calls400 = 0

\* the extractors on every shower record
Init ==
    /\ shower \in Showers
    /\ ExtractStart
    /\ AvgIdle

Next == ProcessShowers \/ ProcessShower

Spec == Init /\ [][Next]_vars

\* the feature rows avg_runs is handed: tenths of
\* <<Energy, Zen, TimeDelay, Q, MuonVEM, nMuons>> and the label
FeatureValues == {<<10, 2, 30, 10, 5, 20, "PPlus">>,
                  <<20, 4, 0, 7, 1, 0, "PPlus">>,
                  <<30, 5, 60, 30, 14, 40, "Fe56Nucleus">>}

FeatureRows ==
    {<<run, FromTenths(v[1]), FromTenths(v[2]), FromTenths(v[3]), FromTenths(v[4]),
       FromTenths(v[5]), FromTenths(v[6]), v[7]>> :
          run \in 1..MaxRun, v \in FeatureValues}

RowLists == UNION {[1..n -> FeatureRows] : n \in 0..MaxRows}

ExtractIdle ==
    /\ shower = MkShower(SignalsOf(<<>>))
    /\ pcNN = "idle"
    /\ callNN = NoCall
    /\ NNdata_proton = Unset
    /\ NNdata_iron = Unset
    /\ NNdata300 = <<>>
    /\ NNdata400 = <<>>
    /\ call400 = NoCall
    /\ calls400 = 0

\* avg_runs on every list of feature rows and either label
InitAvg ==
    /\ List \in RowLists
    /\ Type \in Labels
    /\ pc = "call"
    /\ run_list = {}
    /\ tot = tot0
    /\ avgList = <<>>
    /\ excAvg = "none"
    /\ result = Unset
    /\ ExtractIdle

NextAvg == avg_runs_start \/ avg_runs_for \/ avg_runs_return

SpecAvg == InitAvg /\ [][NextAvg]_vars

\* ------------------------------------------------------------------------
\* Properties of the extractors (specification Spec)
\* ------------------------------------------------------------------------
Sig    == shower.Signals
nTanks == Len(Sig.Tank)

WellShaped == \A f \in SignalFields : Len(Sig[f]) = nTanks
Mismatched == \E f \in SignalFields : Len(Sig[f]) # nTanks
LongEnough == \A f \in SignalFields : Len(Sig[f]) >= nTanks

\* detector i: lateral distance >= 400, > 400, nonzero PE, VEM within [0.6, 2.0]
FarEnough(i) == i <= Len(Sig.LatDist) /\ FLe(FromInt(400), Sig.LatDist[i])
Beyond(i)    == i <= Len(Sig.LatDist) /\ ~FLe(Sig.LatDist[i], FromInt(400))
HasPE(i)     == i <= Len(Sig.TotalPE) /\ Sig.TotalPE[i] # Zero
Banded(i)    == FLe(FromTenths(6), Sig.TotalVEM[i]) /\ FLe(Sig.TotalVEM[i], FromInt(2))

Chosen(i)          == FarEnough(i) /\ HasPE(i)
Chosen400(i)       == Beyond(i) /\ HasPE(i)
ChosenBanded(i)    == Chosen(i) /\ Banded(i)
Chosen400Banded(i) == Chosen400(i) /\ Banded(i)

Tanks == [i \in 1..nTanks |-> i]

RECURSIVE FSumFrom(_, _, _)
FSumFrom(terms, k, sum) ==
    IF k > Len(terms) THEN sum ELSE FSumFrom(terms, k + 1, FAdd(sum, terms[k]))

\* the float sum, in the order of the detectors, of term[i] over the detectors idx
FSum(idx, term) == FSumFrom([j \in 1..Len(idx) |-> term[idx[j]]], 1, Zero)

ScaledPE  == [i \in 1..nTanks |-> FMul(FDiv(Sig.TotalVEM[i], Sig.TotalPE[i]), Sig.MuonPE[i])]
AbsDelay  == [i \in 1..nTanks |-> FAbs(Sig.TimeDelay[i])]

ReturnedNN  == NNdata_proton # Unset
Returned400 == calls400 > 0 /\ call400.exc = "none"
RowNN       == NNdata_proton[1]
Row400      == NNdata400[1]

\* the shower without the detectors that fail the distance cut or have no PE
ChosenOnly ==
    LET idx == SelectSeq(Tanks, Chosen) IN
    [shower EXCEPT !.Signals =
        [f \in SignalFields |-> [j \in 1..Len(idx) |-> Sig[f][idx[j]]]]]

\* C3: in process_showers only detectors with lateral distance >= 400 and nonzero
\* total_PE contribute to the four sums: the sums of a shower are those of the
\* shower without its other detectors, and they are all 0 when no detector
\* satisfies both conditions.
C3_OnlyChosenContribute ==
    ReturnedNN =>
        /\ (\A i \in 1..nTanks : ~Chosen(i)) =>
               /\ RowNN[4] = Zero
               /\ RowNN[5] = Zero
               /\ RowNN[6] = Zero
               /\ RowNN[7] = Zero
        /\ WellShaped =>
               LET r == process_showers(<<ChosenOnly>>).List[1] IN
               <<RowNN[4], RowNN[5], RowNN[6], RowNN[7]>> = <<r[4], r[5], r[6], r[7]>>

\* a shower whose first detector is far enough but has no PE and whose second
\* has PE but is too near: its row has been returned, all sums 0
C3_Witness ==
    /\ ReturnedNN
    /\ WellShaped
    /\ nTanks = 2
    /\ FarEnough(1) /\ ~HasPE(1)
    /\ ~FarEnough(2) /\ HasPE(2)
    /\ <<RowNN[4], RowNN[5], RowNN[6], RowNN[7]>> = <<Zero, Zero, Zero, Zero>>

\* C4: charge_sum and time_delay_sum are the sums over the selected detectors
\* whose total_VEM lies in [0.6, 2.0]; muon_VEM_sum and muon_count_sum are the
\* sums over all selected detectors, in the band or not (in both extractors).
C4_BandOnlyForChargeAndDelay ==
    WellShaped =>
        /\ ReturnedNN =>
               /\ RowNN[4] = FSum(SelectSeq(Tanks, ChosenBanded), AbsDelay)
               /\ RowNN[5] = FSum(SelectSeq(Tanks, ChosenBanded), Sig.TotalVEM)
               /\ RowNN[6] = FSum(SelectSeq(Tanks, Chosen), ScaledPE)
               /\ RowNN[7] = FSum(SelectSeq(Tanks, Chosen), Sig.nMuons)
        /\ Returned400 =>
               /\ Row400[4] = FSum(SelectSeq(Tanks, Chosen400Banded), Sig.TotalVEM)
               /\ Row400[5] = FSum(SelectSeq(Tanks, Chosen400), ScaledPE)
               /\ Row400[6] = FSum(SelectSeq(Tanks, Chosen400), Sig.nMuons)

\* a single selected detector with total_VEM = 2.1: it has added to the muon
\* sums of both extractors and nothing to the charge and time-delay sums
C4_Witness ==
    /\ WellShaped
    /\ nTanks = 1
    /\ Chosen400(1)
    /\ Sig.TotalVEM[1] = FromTenths(21)
    /\ ReturnedNN
    /\ Returned400
    /\ RowNN[4] = Zero /\ RowNN[5] = Zero /\ RowNN[6] # Zero /\ RowNN[7] # Zero
    /\ Row400[4] = Zero /\ Row400[5] # Zero /\ Row400[6] # Zero

\* C5: neither extractor divides by zero: every division totalVEM/totalPE it
\* executes has a nonzero divisor, whatever the lateral distance.
C5_NoDivisionByZero ==
    /\ \A k \in 1..Len(callNN.divs) : callNN.divs[k] # Zero
    /\ \A k \in 1..Len(call400.divs) : call400.divs[k] # Zero
    /\ callNN.exc # "ZeroDivisionError"
    /\ call400.exc # "ZeroDivisionError"

\* both extractors have processed a shower with a detector beyond 400 that has
\* no PE, and have divided for another detector
C5_Witness ==
    /\ \E i \in 1..nTanks : Beyond(i) /\ i <= Len(Sig.TotalPE) /\ Sig.TotalPE[i] = Zero
    /\ pcNN = "done"
    /\ Returned400
    /\ callNN.divs # <<>>
    /\ call400.divs # <<>>

\* the loop of process_showers / process_shower reads, for detector i, an entry
\* that a sequence does not have
ReadsPast(i) ==
    \/ i > Len(Sig.LatDist)
    \/ /\ FarEnough(i)
       /\ \/ i > Len(Sig.TotalPE)
          \/ /\ HasPE(i)
             /\ \/ i > Len(Sig.TotalVEM)
                \/ i > Len(Sig.MuonPE)
                \/ i > Len(Sig.nMuons)
                \/ (Banded(i) /\ i > Len(Sig.TimeDelay))

ReadsPast400(i) ==
    \/ i > Len(Sig.LatDist)
    \/ /\ Beyond(i)
       /\ \/ i > Len(Sig.TotalPE)
          \/ /\ HasPE(i)
             /\ \/ i > Len(Sig.TotalVEM)
                \/ i > Len(Sig.MuonPE)
                \/ i > Len(Sig.nMuons)

\* the shower with every sequence cut to the length of Tank
CutToTanks ==
    [shower EXCEPT !.Signals = [f \in SignalFields |-> SubSeq(Sig[f], 1, nTanks)]]

\* C7 as claimed: extraction fails, and returns no FeatureRow, whenever the
\* sequences of the shower do not all have the same length.
C7_FailsOnMismatch ==
    Mismatched =>
        /\ pcNN # "proton" => (callNN.exc # "none" /\ NNdata_proton = Unset)
        /\ calls400 > 0 => (call400.exc # "none" /\ NNdata400 = <<>>)

\* C7 amended: the extractors do not compare the lengths.  A call raises (an
\* IndexError, and returns no row) exactly when the loop reads an entry beyond
\* the end of a sequence; when every sequence is at least as long as Tank the
\* call returns the row of the first len(Tank) entries.
C7_FailsOnlyWhenReadingPast ==
    /\ pcNN # "proton" =>
          /\ callNN.exc \in {"none", "IndexError"}
          /\ (callNN.exc = "IndexError") = (\E i \in 1..nTanks : ReadsPast(i))
          /\ (callNN.exc = "IndexError") => NNdata_proton = Unset
          /\ (callNN.exc = "none") => ReturnedNN
    /\ calls400 > 0 =>
          /\ call400.exc \in {"none", "IndexError"}
          /\ (call400.exc = "IndexError") = (\E i \in 1..nTanks : ReadsPast400(i))
          /\ (call400.exc = "IndexError") => NNdata400 = <<>>
          /\ (call400.exc = "none") => Len(NNdata400) = calls400
    /\ (LongEnough /\ ReturnedNN) => NNdata_proton = process_showers(<<CutToTanks>>).List
    /\ (LongEnough /\ calls400 > 0) =>
          /\ call400.exc = "none"
          /\ Row400 = process_shower(CutToTanks).row

\* a shower with a sequence longer than Tank, whose row both extractors have
\* returned
C7_Witness ==
    /\ \E f \in SignalFields : Len(Sig[f]) > nTanks
    /\ nTanks > 0
    /\ \E i \in 1..nTanks : Chosen400(i)
    /\ ReturnedNN
    /\ Returned400

\* C9 as claimed: a call returns the row and changes no state that outlives it
\* (stated for the showers whose sequences are parallel).
C9_NoSideEffects ==
    WellShaped =>
    /\ NNdata300 = <<>>
    /\ NNdata400 = <<>>
    /\ Returned400 => call400.ret = call400.row

\* C9 amended: process_showers returns a fresh list holding the row of each
\* shower (the same data give the same list again); process_shower returns
\* None and appends its row to the module-level list NNdata400, which keeps
\* the rows of the showers processed before; NNdata300 is never changed.
C9_RowsAccumulate ==
    /\ NNdata300 = <<>>
    /\ (pcNN = "done") => (NNdata_iron = NNdata_proton /\ Len(NNdata_iron) = 1)
    /\ Returned400 =>
          /\ call400.ret = None
          /\ NNdata400 = [k \in 1..calls400 |-> call400.row]
    /\ (call400.exc # "none") => NNdata400 = <<>>

\* both data files processed by both scripts: NNdata400 holds two rows
C9_Witness ==
    /\ pcNN = "done"
    /\ Returned400
    /\ calls400 = 2
    /\ Len(NNdata400) = 2

\* C10: the two extractors select the same detectors, and so give equal
\* charge_sum, muon_VEM_sum and muon_count_sum for every shower (stated for the
\* showers whose sequences are parallel).
C10_SameSelection ==
    (WellShaped /\ ReturnedNN /\ Returned400) =>
        /\ RowNN[5] = Row400[4]
        /\ RowNN[6] = Row400[5]
        /\ RowNN[7] = Row400[6]

\* ------------------------------------------------------------------------
\* Properties of avg_runs (specification SpecAvg)
\* ------------------------------------------------------------------------
Runs == {List[k][1] : k \in 1..Len(List)}

\* the rows of run R, in the order of List
RowsOfRun(R) == SelectSeq(List, LAMBDA row : row[1] = R)

\* the float sum of field j over the rows of run R, divided by their number
Mean(R, j) ==
    LET rows == RowsOfRun(R) IN
    FDiv(FSumFrom([k \in 1..Len(rows) |-> rows[k][j]], 1, Zero), FromInt(Len(rows)))

IsMeanRow(row) == \A j \in 2..7 : row[j] = Mean(row[1], j)

\* C1: for every run id R of the input, avg_runs emits a row with run id R whose
\* energy, zenith, time-delay, charge, muon-VEM and muon-count fields are each
\* the sum of the field over the rows of R divided by the number of these rows.
C1_RowsAreMeans ==
    /\ \A k \in 1..Len(avgList) : avgList[k][1] \in Runs /\ IsMeanRow(avgList[k])
    /\ pc = "done" =>
          \A R \in Runs : \E k \in 1..Len(result) : result[k][1] = R /\ IsMeanRow(result[k])

\* two rows of one run with charge sums 1.0 and 3.0, and a row of another run:
\* the row returned for the first run has the charge mean 2.0
C1_Witness ==
    /\ pc = "done"
    /\ Len(List) = 3
    /\ \E R \in Runs :
          /\ Len(RowsOfRun(R)) = 2
          /\ RowsOfRun(R)[1][5] = FromInt(1)
          /\ RowsOfRun(R)[2][5] = FromInt(3)
          /\ \E k \in 1..Len(result) : result[k][1] = R /\ result[k][5] = FromInt(2)

\* C2: avg_runs returns as many rows as the input has distinct run ids, one for
\* each of them.
C2_OneRowPerRun ==
    pc = "done" =>
        /\ Len(result) = Cardinality(Runs)
        /\ \A R \in Runs : Cardinality({k \in 1..Len(result) : result[k][1] = R}) = 1

\* three rows of two runs have been averaged into two rows
C2_Witness ==
    /\ pc = "done"
    /\ Len(List) = 3
    /\ Cardinality(Runs) = 2
    /\ Len(result) = 2

\* C6 as claimed: avg_runs never returns normally when given zero rows.
C6_EmptyFails == (List = <<>>) => (pc # "done")

\* C6 amended: given zero rows, avg_runs raises nothing and returns the empty
\* list: its loop over the run ids has nothing to visit and no mean is computed.
C6_EmptyReturnsEmpty ==
    (List = <<>>) =>
        /\ excAvg = "none"
        /\ pc \in {"call", "for", "done"}
        /\ pc = "for" => (run_list = {} /\ avgList = <<>>)
        /\ pc = "done" => result = <<>>

\* avg_runs has returned the empty list for the empty list
C6_Witness == List = <<>> /\ pc = "done" /\ result = <<>> /\ excAvg = "none"

\* List is N >= 1 copies of one row, and Type is the label of that row
Copies ==
    /\ Len(List) >= 1
    /\ \A k \in 1..Len(List) : List[k] = List[1]
    /\ Type = List[1][8]

\* C8 as claimed: N copies of a row are averaged into exactly that row.
C8_CopiesGiveTheRow == (pc = "done" /\ Copies) => result = <<List[1]>>

\* C8 amended: N copies of a row are averaged into one row with the run id and
\* the label of the row; its numeric fields are those of the row when N <= 2 (for
\* more copies the float sum of the copies is rounded, and its N-th part can
\* differ from the field).
C8_CopiesGiveOneRow ==
    (pc = "done" /\ Copies) =>
        /\ Len(result) = 1
        /\ result[1][1] = List[1][1]
        /\ result[1][8] = List[1][8]
        /\ Len(List) <= 2 => result = <<List[1]>>

\* two copies of a row have been averaged into that row
C8_Witness ==
    /\ pc = "done"
    /\ Copies
    /\ Len(List) = 2
    /\ List[1][5] # Zero
    /\ result = <<List[1]>>
====
